---- MODULE Spec2Model ----
(***************************************************************************)
(* H.264-over-RTP framing layer of pkg/sfu: the frame assembler            *)
(* (H264FrameManager, frame_manager.go) and the packetizer (RTPPacketizer, *)
(* rtp_packetizer.go).  Bytes are integers 0..255, byte slices are         *)
(* sequences, time is in milliseconds.                                     *)
(***************************************************************************)
EXTENDS Integers, Sequences, FiniteSets, TLC

VARIABLES
    m,        \* the H264FrameManager struct (one session)
    now,      \* the wall clock read by time.Now() / time.Since()
    last,     \* outcome of the most recent call on the session
    first,    \* identity of the first accepted packet (history)
    calls,    \* number of calls made so far
    frame,    \* the frame handed to Packetize
    packets,  \* the packets Packetize returned
    fed,      \* how many of them have been fed to the session
    pc,       \* position of the round-trip driver / of each thread
    mu,       \* holder of m.mu (0 = unlocked)
    snap,     \* per thread: the fields each call read under the lock
    todo,     \* per thread: the calls it still has to make
    serial,   \* the session as produced by the calls run one at a time
    log,      \* the calls completed by the threads, in order of completion
    span,     \* the FU-A packets accepted since the latest start bit (history)
    sent,     \* first and last sequence number of each earlier Packetize call
    scanIn,   \* the buffer handed to the NAL unit scanner
    scanOut   \* what parseNALUnits and findNALUnits returned for it

vars == <<m, now, last, first, calls, frame, packets, fed, pc, mu, snap, todo, serial, log,
          span, sent, scanIn, scanOut>>

callVars == <<last, first, calls>>
tripVars == <<frame, packets, fed>>
lockVars == <<mu, snap, todo, serial, log>>
auxVars == <<span, sent, scanIn, scanOut>>

-----------------------------------------------------------------------------
(* Bounds of the model *)

MaxOps == 3
MaxNow == 150
TickStep == 50

(* Program constants *)

MaxRTPPacketSize == 1200
NALStartCodeLength == 4
frameTimeout == 100

-----------------------------------------------------------------------------
(* Byte arithmetic *)

RECURSIVE BitAnd(_, _)
BitAnd(a, b) ==
    IF a = 0 \/ b = 0 THEN 0
    ELSE (a % 2) * (b % 2) + 2 * BitAnd(a \div 2, b \div 2)

RECURSIVE BitOr(_, _)
BitOr(a, b) ==
    IF a = 0 THEN b
    ELSE IF b = 0 THEN a
    ELSE (IF a % 2 = 1 \/ b % 2 = 1 THEN 1 ELSE 0) + 2 * BitOr(a \div 2, b \div 2)

uint16(n) == n % 65536

Min(S) == CHOOSE x \in S : \A y \in S : x <= y

RECURSIVE Flatten(_)
Flatten(units) ==
    IF units = <<>> THEN <<>> ELSE Head(units) \o Flatten(Tail(units))

Slice(buf, lo, hi) == SubSeq(buf, lo + 1, hi)

-----------------------------------------------------------------------------
(* NAL unit scanner: the loop of parseNALUnits / findNALUnits.  The loop   *)
(* index only acts at the positions holding a start code, so the loop is   *)
(* folded over those positions in ascending order.                         *)

IsStartCode(buf, i) ==
    buf[i + 1] = 0 /\ buf[i + 2] = 0 /\ buf[i + 3] = 0 /\ buf[i + 4] = 1

StartCodesWithin(buf, window) ==
    { i \in 0 .. (Len(buf) - window - 1) : IsStartCode(buf, i) }

RECURSIVE ScanLoop_EmitsEmpty(_, _, _, _)
ScanLoop_EmitsEmpty(buf, hits, start, nalUnits) ==
    IF hits = {}
    THEN IF start < Len(buf)
         THEN Append(nalUnits, Slice(buf, start, Len(buf)))
         ELSE nalUnits
    ELSE LET i == Min(hits)
         IN  ScanLoop_EmitsEmpty(buf, hits \ {i}, i + 4,
                                 IF start <= i THEN Append(nalUnits, Slice(buf, start, i))
                                 ELSE nalUnits)

RECURSIVE ScanLoop(_, _, _, _)
ScanLoop(buf, hits, start, nalUnits) ==
    IF hits = {}
    THEN IF start < Len(buf)
         THEN Append(nalUnits, Slice(buf, start, Len(buf)))
         ELSE nalUnits
    ELSE LET i == Min(hits)
         IN  ScanLoop(buf, hits \ {i}, i + 4,
                      IF start < i THEN Append(nalUnits, Slice(buf, start, i))
                      ELSE nalUnits)

parseNALUnits(payload) ==
    ScanLoop(payload, StartCodesWithin(payload, 4), 0, <<>>)

-----------------------------------------------------------------------------
(* H264FrameManager *)

NoFragments == [s \in {} |-> <<>>]

NewH264FrameManager(t) ==
    [ ssrc |-> 0, pt |-> 0, lastSeq |-> 0, lastTS |-> 0,
      isComplete |-> FALSE, nalUnits |-> <<>>,
      lastReceive |-> t,
      fragments |-> NoFragments, startSeq |-> 0, endSeq |-> 0 ]

checkFrameComplete(mm, t) ==
    IF Len(mm.nalUnits) = 0 THEN FALSE
    ELSE IF t - mm.lastReceive > frameTimeout THEN TRUE
    ELSE LET lastNAL == mm.nalUnits[Len(mm.nalUnits)]
         IN  IF Len(lastNAL) > 0
             THEN LET nalType == BitAnd(lastNAL[1], 31)
                  IN  nalType = 10 \/ nalType = 12
             ELSE FALSE

RECURSIVE ConcatSorted(_, _)
ConcatSorted(fragments, sequences) ==
    IF sequences = {} THEN <<>>
    ELSE LET seq == Min(sequences)
             fragment == fragments[seq]
         IN  (IF Len(fragment) < 2 THEN <<>> ELSE Slice(fragment, 2, Len(fragment)))
             \o ConcatSorted(fragments, sequences \ {seq})

reassembleFragments_NoFlag(mm) ==
    IF DOMAIN mm.fragments = {}
    THEN [m |-> mm, err |-> "no fragments to reassemble"]
    ELSE LET reassembled == ConcatSorted(mm.fragments, DOMAIN mm.fragments)
             nalUnits == parseNALUnits(reassembled)
         IN  [m |-> [mm EXCEPT !.nalUnits = mm.nalUnits \o nalUnits], err |-> ""]

reassembleFragments(mm) ==
    IF DOMAIN mm.fragments = {}
    THEN [m |-> mm, err |-> "no fragments to reassemble"]
    ELSE LET reassembled == ConcatSorted(mm.fragments, DOMAIN mm.fragments)
             nalUnits == parseNALUnits(reassembled)
         IN  [m |-> [mm EXCEPT !.nalUnits = mm.nalUnits \o nalUnits,
                               !.isComplete = TRUE],
              err |-> ""]

AddFUA_KeepsOldSpan(m1, packet) ==
    IF Len(packet.Payload) < 2
    THEN [m |-> m1, err |-> "invalid FU-A packet"]
    ELSE LET fuHeader == packet.Payload[2]
             startBit == BitAnd(fuHeader, 128) # 0
             endBit == BitAnd(fuHeader, 64) # 0
             m2 == IF startBit
                   THEN [m1 EXCEPT !.startSeq = packet.SequenceNumber]
                   ELSE m1
             m3 == [m2 EXCEPT !.fragments =
                       (packet.SequenceNumber :> packet.Payload) @@ m2.fragments]
         IN  IF endBit
             THEN reassembleFragments([m3 EXCEPT !.endSeq = packet.SequenceNumber])
             ELSE [m |-> m3, err |-> ""]

AddFUA(m1, packet) ==
    IF Len(packet.Payload) < 2
    THEN [m |-> m1, err |-> "invalid FU-A packet"]
    ELSE LET fuHeader == packet.Payload[2]
             startBit == BitAnd(fuHeader, 128) # 0
             endBit == BitAnd(fuHeader, 64) # 0
             m2 == IF startBit
                   THEN [m1 EXCEPT !.startSeq = packet.SequenceNumber,
                                   !.fragments = NoFragments]
                   ELSE m1
             m3 == [m2 EXCEPT !.fragments =
                       (packet.SequenceNumber :> packet.Payload) @@ m2.fragments]
         IN  IF endBit
             THEN reassembleFragments([m3 EXCEPT !.endSeq = packet.SequenceNumber])
             ELSE [m |-> m3, err |-> ""]

AddSingle(m1, packet, t) ==
    LET m2 == [m1 EXCEPT !.lastSeq = packet.SequenceNumber,
                         !.lastTS = packet.Timestamp]
        nalUnits == parseNALUnits(packet.Payload)
        m3 == [m2 EXCEPT !.nalUnits = m2.nalUnits \o nalUnits]
        m4 == [m3 EXCEPT !.isComplete = checkFrameComplete(m3, t)]
    IN  [m |-> [m4 EXCEPT !.lastReceive = t], err |-> ""]

AdoptIdentity(mm, packet) ==
    IF mm.ssrc = 0
    THEN [mm EXCEPT !.ssrc = packet.SSRC, !.pt = packet.PayloadType]
    ELSE mm

IdentityError(mm, packet) ==
    IF mm.ssrc # 0 /\ mm.ssrc # packet.SSRC THEN "SSRC mismatch"
    ELSE IF mm.pt # 0 /\ mm.pt # packet.PayloadType THEN "payload type mismatch"
    ELSE ""

AddPacket(mm, packet, t) ==
    IF IdentityError(mm, packet) # ""
    THEN [m |-> mm, err |-> IdentityError(mm, packet)]
    ELSE LET m1 == AdoptIdentity(mm, packet)
         IN  IF Len(packet.Payload) > 0 /\ BitAnd(packet.Payload[1], 31) = 28
             THEN AddFUA(m1, packet)
             ELSE AddSingle(m1, packet, t)

reset_KeepsUnits(mm) == [mm EXCEPT !.isComplete = FALSE]

reset(mm) == [mm EXCEPT !.nalUnits = <<>>, !.isComplete = FALSE]

GetCompleteFrame_CompletesIdle(mm) ==
    IF ~mm.isComplete
    THEN [m |-> [mm EXCEPT !.isComplete = Len(mm.nalUnits) > 0],
          err |-> "frame not complete", frame |-> <<>>]
    ELSE [m |-> reset(mm), err |-> "", frame |-> Flatten(mm.nalUnits)]

GetCompleteFrame_ResetsAnyway(mm) ==
    IF ~mm.isComplete
    THEN [m |-> reset(mm), frame |-> <<>>, err |-> "frame not complete"]
    ELSE [m |-> reset(mm), frame |-> Flatten(mm.nalUnits), err |-> ""]

GetCompleteFrame(mm) ==
    IF ~mm.isComplete
    THEN [m |-> mm, frame |-> <<>>, err |-> "frame not complete"]
    ELSE [m |-> reset(mm), frame |-> Flatten(mm.nalUnits), err |-> ""]

-----------------------------------------------------------------------------
(* RTPPacketizer *)

Packet(ssrc, pt, seq, ts, marker, payload) ==
    [ SSRC |-> ssrc, PayloadType |-> pt, SequenceNumber |-> seq,
      Timestamp |-> ts, Marker |-> marker, Payload |-> payload ]

NewRTPPacketizer(ssrc, pt) == [ssrc |-> ssrc, pt |-> pt]

findNALUnits(buf) ==
    ScanLoop(buf, StartCodesWithin(buf, NALStartCodeLength), 0, <<>>)

fuHeaderOf_EndOnEvery(i, numFragments, nalType) ==
    BitOr(BitOr(IF i = 0 THEN 128 ELSE 0, 64), nalType)

fuHeaderOf(i, numFragments, nalType) ==
    BitOr(BitOr(IF i = 0 THEN 128 ELSE 0,
                IF i = numFragments - 1 THEN 64 ELSE 0),
          nalType)

fragmentMarker_EveryNAL(i, numFragments, isLastNAL) == i = numFragments - 1

fragmentMarker(i, numFragments, isLastNAL) == i = numFragments - 1 /\ isLastNAL

fragmentNAL(p, nal, startSeq, timestamp, isLastNAL) ==
    LET nalType == BitAnd(nal[1], 31)
        nalHeader == <<BitOr(BitAnd(nal[1], 224), 28)>>
        nalData == Slice(nal, 1, Len(nal))
        numFragments ==
            (Len(nalData) + MaxRTPPacketSize - 2) \div (MaxRTPPacketSize - 2)
        fragmentOf(i) ==
            LET start == i * (MaxRTPPacketSize - 2)
                upto == start + (MaxRTPPacketSize - 2)
                end == IF upto > Len(nalData) THEN Len(nalData) ELSE upto
            IN  nalHeader \o <<fuHeaderOf(i, numFragments, nalType)>>
                \o Slice(nalData, start, end)
    IN  [ k \in 1 .. numFragments |->
            Packet(p.ssrc, p.pt, uint16(startSeq + (k - 1)), timestamp,
                   fragmentMarker(k - 1, numFragments, isLastNAL),
                   fragmentOf(k - 1)) ]

advanceSeq_ByOne(sequenceNumber, fragments) == uint16(sequenceNumber + 1)

advanceSeq(sequenceNumber, fragments) == uint16(sequenceNumber + Len(fragments))

RECURSIVE PacketizeLoop(_, _, _, _, _, _)
PacketizeLoop(p, nalUnits, i, sequenceNumber, timestamp, pkts) ==
    IF i >= Len(nalUnits) THEN pkts
    ELSE LET nal == nalUnits[i + 1]
             isLast == (i = Len(nalUnits) - 1)
         IN  IF Len(nal) > MaxRTPPacketSize
             THEN LET fragments == fragmentNAL(p, nal, sequenceNumber, timestamp, isLast)
                  IN  PacketizeLoop(p, nalUnits, i + 1,
                                    advanceSeq(sequenceNumber, fragments),
                                    timestamp, pkts \o fragments)
             ELSE PacketizeLoop(p, nalUnits, i + 1, uint16(sequenceNumber + 1),
                                timestamp,
                                Append(pkts, Packet(p.ssrc, p.pt, sequenceNumber,
                                                    timestamp, isLast, nal)))

Packetize(p, buf, timestamp) ==
    LET nalUnits == findNALUnits(buf)
    IN  IF Len(nalUnits) = 0 THEN <<>>
        ELSE PacketizeLoop(p, nalUnits, 0, 0, timestamp, <<>>)

-----------------------------------------------------------------------------
(* Packets offered to one session *)

Identities ==
    { <<1000, 96>>, <<2000, 96>>, <<1000, 97>>,
      <<0, 96>>,        \* SSRC 0 is a legal synchronization source
      <<1000, 0>> }     \* payload type 0 is a legal payload type
SequenceNumbers == {7, 8}
Payloads ==
    { <<>>,
      <<103, 66>>,                    \* SPS, type 7
      <<10>>,                         \* end of sequence, type 10
      <<65, 0, 0, 0, 1, 104, 5>>,     \* two units in one payload
      <<124>>,                        \* FU indicator alone
      <<124, 133, 17>>,               \* FU-A start, type 5
      <<124, 69, 18>> }               \* FU-A end, type 5

Packets ==
    { Packet(id[1], id[2], q, 9000, FALSE, b) :
        id \in Identities, q \in SequenceNumbers, b \in Payloads }

NoSpan == [open |-> FALSE, abandoned |-> FALSE, pkts |-> <<>>]

NoAux == span = NoSpan /\ sent = <<>> /\ scanIn = <<>> /\ scanOut = <<>>

NoCall == [op |-> "none", err |-> "", frame |-> <<>>, ssrc |-> 0, pt |-> 0]
NoFirst == [set |-> FALSE, ssrc |-> 0, pt |-> 0]

Idle ==
    /\ frame = <<>> /\ packets = <<>> /\ fed = 0
    /\ pc = "session" /\ mu = 0 /\ snap = <<>> /\ todo = <<>> /\ serial = <<>>
    /\ log = <<>>
    /\ NoAux

Init ==
    /\ now = 0
    /\ m = NewH264FrameManager(now)
    /\ last = NoCall
    /\ first = NoFirst
    /\ calls = 0
    /\ Idle

Record(res, packet) ==
    /\ m' = res.m
    /\ last' = [op |-> "AddPacket", err |-> res.err, frame |-> <<>>,
                ssrc |-> packet.SSRC, pt |-> packet.PayloadType]
    /\ first' = IF res.err = "" /\ ~first.set
                THEN [set |-> TRUE, ssrc |-> packet.SSRC, pt |-> packet.PayloadType]
                ELSE first

DoAddPacket ==
    /\ calls < MaxOps
    /\ \E packet \in Packets : Record(AddPacket(m, packet, now), packet)
    /\ calls' = calls + 1
    /\ UNCHANGED <<now, tripVars, pc, lockVars, auxVars>>

DoGetCompleteFrame ==
    /\ calls < MaxOps
    /\ LET res == GetCompleteFrame(m)
       IN  /\ m' = res.m
           /\ last' = [op |-> "GetCompleteFrame", err |-> res.err,
                       frame |-> res.frame, ssrc |-> 0, pt |-> 0]
    /\ calls' = calls + 1
    /\ UNCHANGED <<now, first, tripVars, pc, lockVars, auxVars>>

Tick ==
    /\ now + TickStep <= MaxNow
    /\ now' = now + TickStep
    /\ UNCHANGED <<m, callVars, tripVars, pc, lockVars, auxVars>>

Next == DoAddPacket \/ DoGetCompleteFrame \/ Tick

Spec == Init /\ [][Next]_vars

-----------------------------------------------------------------------------
(* Claims about one session under arbitrary packets (Spec) *)

MismatchErrors == {"SSRC mismatch", "payload type mismatch"}

AddPacketStep == calls' = calls + 1 /\ last'.op = "AddPacket"
GetStep == calls' = calls + 1 /\ last'.op = "GetCompleteFrame"

IsPrefix(s, t) == Len(s) <= Len(t) /\ SubSeq(t, 1, Len(s)) = s

\* C1: once a packet has been accepted, every later packet whose SSRC or
\* payload type differs from the first accepted packet's is rejected with a
\* mismatch error, and the rejected call leaves the session unchanged.
C1_IdentityLockIn ==
    [][ (AddPacketStep /\ first.set
         /\ (last'.ssrc # first.ssrc \/ last'.pt # first.pt))
        => (last'.err \in MismatchErrors /\ m' = m) ]_vars

\* C2: once a packet has been accepted, the stored ssrc and payload type
\* equal those of the first accepted packet in every later state.
C2_IdentityImmutable ==
    first.set => (m.ssrc = first.ssrc /\ m.pt = first.pt)

\* C3: GetCompleteFrame with the completion flag unset returns the
\* "frame not complete" error and no frame, and changes no field.
C3_GetIncomplete ==
    [][ (GetStep /\ ~m.isComplete)
        => (last'.err = "frame not complete" /\ last'.frame = <<>> /\ m' = m) ]_vars

C3_Witness ==
    /\ last.op = "GetCompleteFrame" /\ last.err = "frame not complete"
    /\ Len(m.nalUnits) > 0 /\ DOMAIN m.fragments # {}

\* C4: a successful GetCompleteFrame returns every accumulated NAL unit in
\* arrival order, clears the list and the flag and nothing else; AddPacket
\* never drops or reorders what is accumulated, so a unit leaves the list only
\* through the one retrieval that returns it; and a GetCompleteFrame right
\* after a successful one fails.
C4_Retrieval ==
    [][ /\ (GetStep /\ last'.err = "")
            => /\ last'.frame = Flatten(m.nalUnits)
               /\ m' = [m EXCEPT !.nalUnits = <<>>, !.isComplete = FALSE]
        /\ AddPacketStep => IsPrefix(m.nalUnits, m'.nalUnits)
        /\ (GetStep /\ last.op = "GetCompleteFrame" /\ last.err = "")
            => last'.err = "frame not complete" ]_vars

C4_Witness ==
    /\ last.op = "GetCompleteFrame" /\ last.err = ""
    /\ Len(last.frame) > 2 /\ m.nalUnits = <<>> /\ ~m.isComplete
    /\ m.ssrc # 0 /\ m.lastSeq # 0 /\ m.lastTS # 0

-----------------------------------------------------------------------------
(* Round trip: one frame is packetized, the packets are fed in order to a  *)
(* fresh session of the same SSRC / payload type, then the frame is        *)
(* retrieved.  The clock may advance between any two calls.                *)

StartCode == <<0, 0, 0, 1>>

BigNAL(header, length) == <<header>> \o [k \in 1 .. (length - 1) |-> 1 + (k % 250)]

SmallUnits ==
    { <<103, 66, 0, 30, 171, 64>>,                  \* 6 bytes, type 7
      <<65, 154, 33, 108, 66, 255, 0, 16, 3, 4>>,   \* 10 bytes, type 1
      <<10>> }                                      \* end of sequence

BigUnits == { BigNAL(h, l) : h \in {101, 33}, l \in {1201, 2398} }

Units == SmallUnits \cup BigUnits

Frames ==
    {<<>>}
    \cup { StartCode \o u : u \in Units }
    \cup { StartCode \o u \o StartCode \o v : u \in Units, v \in Units }

InitRT ==
    /\ now = 0
    /\ m = NewH264FrameManager(now)
    /\ last = NoCall
    /\ first = NoFirst
    /\ calls = 0
    /\ frame \in Frames
    /\ packets = <<>> /\ fed = 0
    /\ pc = "packetize"
    /\ mu = 0 /\ snap = <<>> /\ todo = <<>> /\ serial = <<>> /\ log = <<>>
    /\ NoAux

RTPacketize ==
    /\ pc = "packetize"
    /\ packets' = Packetize(NewRTPPacketizer(1000, 96), frame, 9000)
    /\ pc' = "feed"
    /\ UNCHANGED <<m, now, callVars, frame, fed, lockVars, auxVars>>

RTFeed ==
    /\ pc = "feed"
    /\ fed < Len(packets)
    /\ Record(AddPacket(m, packets[fed + 1], now), packets[fed + 1])
    /\ fed' = fed + 1
    /\ calls' = calls + 1
    /\ UNCHANGED <<now, frame, packets, pc, lockVars, auxVars>>

RTRetrieve ==
    /\ pc = "feed"
    /\ fed = Len(packets)
    /\ LET res == GetCompleteFrame(m)
       IN  /\ m' = res.m
           /\ last' = [op |-> "GetCompleteFrame", err |-> res.err,
                       frame |-> res.frame, ssrc |-> 0, pt |-> 0]
    /\ pc' = "done"
    /\ calls' = calls + 1
    /\ UNCHANGED <<now, first, tripVars, lockVars, auxVars>>

NextRT == RTPacketize \/ RTFeed \/ RTRetrieve \/ Tick

SpecRT == InitRT /\ [][NextRT]_vars

-----------------------------------------------------------------------------
(* Claims about the packetizer and the round trip (SpecRT) *)

FrameUnits == findNALUnits(frame)

Packetized == pc \in {"feed", "done"}

FragmentCount(length) ==
    ((length - 1) + (MaxRTPPacketSize - 2) - 1) \div (MaxRTPPacketSize - 2)

PacketCount(u) == IF Len(u) > MaxRTPPacketSize THEN FragmentCount(Len(u)) ELSE 1

RECURSIVE PacketsBefore(_, _)
PacketsBefore(units, j) ==
    IF j <= 1 THEN 0 ELSE PacketsBefore(units, j - 1) + PacketCount(units[j - 1])

StartBitSet(h) == (h \div 128) % 2 = 1
EndBitSet(h) == (h \div 64) % 2 = 1
LowFive(b) == b % 32
HighThree(b) == (b \div 32) * 32

\* C6: a frame of start-code-delimited units, none above the maximum payload
\* size, packetized and fed in order to a fresh session, is retrieved
\* successfully and byte-identical, start codes included.
C6_RoundTripUnfragmented ==
    (pc = "done" /\ FrameUnits # <<>>
     /\ \A j \in 1 .. Len(FrameUnits) : Len(FrameUnits[j]) <= MaxRTPPacketSize)
    => (last.err = "" /\ last.frame = frame)

\* C7: once all packets of the frame are fed in order, every unit above the
\* maximum payload size is in the accumulated list with its original bytes,
\* first byte included.
C7_RoundTripFragmented ==
    (pc = "feed" /\ fed = Len(packets))
    => \A j \in 1 .. Len(FrameUnits) :
          Len(FrameUnits[j]) > MaxRTPPacketSize
          => \E k \in 1 .. Len(m.nalUnits) : m.nalUnits[k] = FrameUnits[j]

\* C8: of the n FU-A packets of a fragmented unit exactly the first has the
\* start bit, exactly the last has the end bit, each FU header carries the
\* unit's type and each FU indicator is (first byte & 0xE0) | 28.
C8_FragmentHeaders ==
    Packetized =>
    \A j \in 1 .. Len(FrameUnits) :
       LET u == FrameUnits[j]
           n == FragmentCount(Len(u))
           off == PacketsBefore(FrameUnits, j)
       IN  Len(u) > MaxRTPPacketSize =>
           /\ off + n <= Len(packets)
           /\ \A i \in 0 .. (n - 1) :
                 LET payload == packets[off + i + 1].Payload
                 IN  /\ Len(payload) >= 2
                     /\ payload[1] = HighThree(u[1]) + 28
                     /\ LowFive(payload[2]) = LowFive(u[1])
                     /\ StartBitSet(payload[2]) <=> (i = 0)
                     /\ EndBitSet(payload[2]) <=> (i = n - 1)

C8_Witness ==
    /\ Packetized /\ Len(FrameUnits) = 2 /\ Len(packets) = 5
    /\ Len(FrameUnits[1]) = 2398 /\ Len(FrameUnits[2]) = 1201
    /\ StartBitSet(packets[1].Payload[2]) /\ EndBitSet(packets[3].Payload[2])

\* C9: when the frame holds at least one unit, exactly one returned packet has
\* the marker bit and it is the last one.
C9_MarkerPlacement ==
    (Packetized /\ FrameUnits # <<>>)
    => /\ Len(packets) >= 1
       /\ \A k \in 1 .. Len(packets) : packets[k].Marker <=> (k = Len(packets))

C9_Witness ==
    /\ Packetized /\ Len(FrameUnits) = 2 /\ Len(packets) = 4
    /\ Len(FrameUnits[1]) = 2398 /\ Len(FrameUnits[2]) = 10
    /\ packets[4].Marker /\ ~packets[3].Marker

\* C10: the k-th returned packet (k from 0) has the first packet's sequence
\* number plus k, modulo 2^16.
C10_ContiguousSeq ==
    Packetized =>
    \A k \in 1 .. Len(packets) :
       packets[k].SequenceNumber = (packets[1].SequenceNumber + (k - 1)) % 65536

C10_Witness ==
    /\ Packetized /\ Len(FrameUnits) = 2 /\ Len(packets) = 4
    /\ Len(FrameUnits[1]) = 2398 /\ Len(FrameUnits[2]) = 6
    /\ packets[4].SequenceNumber = 3

-----------------------------------------------------------------------------
(* Several goroutines calling AddPacket and GetCompleteFrame on one        *)
(* session.  A call locks m.mu, reads the fields, writes them back and     *)
(* unlocks on return (the deferred Unlock).                                *)

NumGoroutines == 2

Goroutines == 1 .. NumGoroutines

SharedCalls ==
    { [op |-> "AddPacket", packet |-> Packet(1000, 96, 7, 9000, FALSE, <<103, 66>>)],
      [op |-> "AddPacket", packet |-> Packet(1000, 96, 8, 9000, TRUE, <<10>>)],
      [op |-> "GetCompleteFrame", packet |-> <<>>] }

Programs ==
    { <<c>> : c \in SharedCalls } \cup { <<c, d>> : c \in SharedCalls, d \in SharedCalls }

Run(call, mm, t) ==
    IF call.op = "AddPacket"
    THEN LET res == AddPacket(mm, call.packet, t)
         IN  [m |-> res.m, frame |-> <<>>, err |-> res.err]
    ELSE GetCompleteFrame(mm)

InitShared ==
    /\ now = 0
    /\ m = NewH264FrameManager(now)
    /\ last = NoCall /\ first = NoFirst /\ calls = 0
    /\ frame = <<>> /\ packets = <<>> /\ fed = 0
    /\ pc = [g \in Goroutines |-> "idle"]
    /\ mu = 0
    /\ snap = [g \in Goroutines |-> m]
    /\ todo \in [Goroutines -> Programs]
    /\ serial = m
    /\ log = <<>>
    /\ NoAux

canLock_NoMutex(holder) == TRUE

canLock(holder) == holder = 0

Lock(g) ==
    /\ pc[g] = "idle"
    /\ todo[g] # <<>>
    /\ canLock(mu)
    /\ mu' = g
    /\ pc' = [pc EXCEPT ![g] = "locked"]
    /\ UNCHANGED <<m, now, callVars, tripVars, snap, todo, serial, log, auxVars>>

ReadFields(g) ==
    /\ pc[g] = "locked"
    /\ snap' = [snap EXCEPT ![g] = m]
    /\ pc' = [pc EXCEPT ![g] = "running"]
    /\ UNCHANGED <<m, now, callVars, tripVars, mu, todo, serial, log, auxVars>>

WriteAndUnlock(g) ==
    /\ pc[g] = "running"
    /\ LET call == Head(todo[g])
           res == Run(call, snap[g], now)
           alone == Run(call, serial, now)
       IN  /\ m' = res.m
           /\ serial' = alone.m
           /\ log' = Append(log, [g |-> g, call |-> call,
                                  err |-> res.err, frame |-> res.frame,
                                  wasComplete |-> serial.isComplete,
                                  aloneErr |-> alone.err,
                                  aloneFrame |-> alone.frame])
    /\ mu' = 0
    /\ todo' = [todo EXCEPT ![g] = Tail(todo[g])]
    /\ pc' = [pc EXCEPT ![g] = "idle"]
    /\ UNCHANGED <<now, callVars, tripVars, snap, auxVars>>

NextShared ==
    \E g \in Goroutines : Lock(g) \/ ReadFields(g) \/ WriteAndUnlock(g)

SpecShared == InitShared /\ [][NextShared]_vars

-----------------------------------------------------------------------------
(* Claim about concurrent callers (SpecShared) *)

RECURSIVE AcceptedBytes(_)
AcceptedBytes(entries) ==
    IF entries = <<>> THEN <<>>
    ELSE (IF Head(entries).call.op = "AddPacket" /\ Head(entries).err = ""
          THEN Head(entries).call.packet.Payload ELSE <<>>)
         \o AcceptedBytes(Tail(entries))

RECURSIVE ReturnedBytes(_)
ReturnedBytes(entries) ==
    IF entries = <<>> THEN <<>>
    ELSE (IF Head(entries).call.op = "GetCompleteFrame"
          THEN Head(entries).frame ELSE <<>>)
         \o ReturnedBytes(Tail(entries))

\* C5: with concurrent callers every call takes effect atomically: the
\* session is always the one the completed calls produce run one at a time in
\* their order of completion, each call returns what it returns in that
\* serial run, the bytes of accepted packets are each either still
\* accumulated or returned once, and of two GetCompleteFrame calls completing
\* back to back on a complete frame the first succeeds and the second fails.
C5_Atomic ==
    /\ m = serial
    /\ \A k \in 1 .. Len(log) :
          log[k].err = log[k].aloneErr /\ log[k].frame = log[k].aloneFrame
    /\ AcceptedBytes(log) = ReturnedBytes(log) \o Flatten(m.nalUnits)
    /\ \A k \in 1 .. (Len(log) - 1) :
          (/\ log[k].call.op = "GetCompleteFrame"
           /\ log[k + 1].call.op = "GetCompleteFrame"
           /\ log[k].wasComplete)
          => (log[k].err = "" /\ log[k + 1].err = "frame not complete")

C5_Witness ==
    /\ Len(log) = 3
    /\ log[1].call.op = "AddPacket" /\ log[1].err = ""
    /\ log[2].call.op = "GetCompleteFrame" /\ log[2].err = "" /\ log[2].frame = <<10>>
    /\ log[3].call.op = "GetCompleteFrame" /\ log[3].err = "frame not complete"
    /\ log[2].g # log[3].g

-----------------------------------------------------------------------------
(* One outgoing stream: consecutive Packetize calls on one RTPPacketizer   *)

MaxFrames == 3

StreamFrames ==
    { StartCode \o u : u \in Units }
    \cup { StartCode \o u \o StartCode \o v : u \in BigUnits, v \in {<<10>>} }

InitStream ==
    /\ now = 0
    /\ m = NewH264FrameManager(now)
    /\ last = NoCall /\ first = NoFirst /\ calls = 0
    /\ frame = <<>> /\ packets = <<>> /\ fed = 0
    /\ pc = "stream"
    /\ mu = 0 /\ snap = <<>> /\ todo = <<>> /\ serial = <<>> /\ log = <<>>
    /\ NoAux

StreamPacketize ==
    /\ pc = "stream"
    /\ Len(sent) < MaxFrames
    /\ \E f \in StreamFrames :
          /\ frame' = f
          /\ packets' = Packetize(NewRTPPacketizer(1000, 96), f, 9000 + 3000 * Len(sent))
    /\ sent' = Append(sent, [first |-> packets'[1].SequenceNumber,
                             last |-> packets'[Len(packets')].SequenceNumber])
    /\ UNCHANGED <<m, now, callVars, fed, pc, lockVars, span, scanIn, scanOut>>

NextStream == StreamPacketize

SpecStream == InitStream /\ [][NextStream]_vars

\* C11: across consecutive Packetize calls of one stream the first packet of
\* a call carries the sequence number that follows, modulo 2^16, the last
\* packet of the previous call.
C11_StreamSequence ==
    \A k \in 2 .. Len(sent) : sent[k].first = (sent[k - 1].last + 1) % 65536

-----------------------------------------------------------------------------
(* One session fed FU-A fragments with sequence numbers around the 16-bit  *)
(* wrap.  span is history kept beside the session: the FU-A packets        *)
(* accepted since the latest start-bit packet, whether a span is open      *)
(* (start seen, no end yet) and whether it replaced a span still open.     *)

MaxFUOps == 4

FUSequenceNumbers == {65535, 0, 1}

FUPayloads ==
    { <<124, 133, 17>>,     \* FU-A start, type 5
      <<124, 133, 21>>,     \* another FU-A start
      <<124, 5, 18>>,       \* FU-A middle
      <<124, 69, 19>>,      \* FU-A end
      <<124, 69>>,          \* FU-A end carrying no data
      <<124, 197, 23>>,     \* FU-A start and end in one packet
      <<103, 66>> }         \* single NAL unit, type 7

FUPackets ==
    { Packet(1000, 96, q, 9000, FALSE, b) : q \in FUSequenceNumbers, b \in FUPayloads }

IsFUA(payload) == Len(payload) >= 2 /\ LowFive(payload[1]) = 28
HasStart(packet) == IsFUA(packet.Payload) /\ StartBitSet(packet.Payload[2])
HasEnd(packet) == IsFUA(packet.Payload) /\ EndBitSet(packet.Payload[2])

Track(sp, packet, err) ==
    IF err # "" \/ ~IsFUA(packet.Payload) THEN sp
    ELSE IF HasStart(packet)
         THEN [open |-> ~HasEnd(packet), abandoned |-> sp.open, pkts |-> <<packet>>]
         ELSE [open |-> sp.open /\ ~HasEnd(packet), abandoned |-> sp.abandoned,
               pkts |-> Append(sp.pkts, packet)]

NoFUCall ==
    [op |-> "none", err |-> "", frame |-> <<>>, packet |-> <<>>, afterEnd |-> FALSE]

InitFU ==
    /\ now = 0
    /\ m = NewH264FrameManager(now)
    /\ last = NoFUCall
    /\ first = NoFirst
    /\ calls = 0
    /\ Idle

FUAddPacket ==
    /\ calls < MaxFUOps
    /\ \E packet \in FUPackets :
          LET res == AddPacket(m, packet, now)
          IN  /\ m' = res.m
              /\ last' = [op |-> "AddPacket", err |-> res.err, frame |-> <<>>,
                          packet |-> packet, afterEnd |-> FALSE]
              /\ span' = Track(span, packet, res.err)
    /\ calls' = calls + 1
    /\ UNCHANGED <<now, first, tripVars, pc, lockVars, sent, scanIn, scanOut>>

FUGetCompleteFrame ==
    /\ calls < MaxFUOps
    /\ LET res == GetCompleteFrame(m)
       IN  /\ m' = res.m
           /\ last' = [op |-> "GetCompleteFrame", err |-> res.err,
                       frame |-> res.frame, packet |-> <<>>,
                       afterEnd |-> (last.op = "AddPacket" /\ last.err = ""
                                     /\ HasEnd(last.packet))]
    /\ calls' = calls + 1
    /\ UNCHANGED <<now, first, tripVars, pc, lockVars, auxVars>>

NextFU == FUAddPacket \/ FUGetCompleteFrame

SpecFU == InitFU /\ [][NextFU]_vars

-----------------------------------------------------------------------------
(* Claims about FU-A reassembly (SpecFU) *)

DataOf(packet) == SubSeq(packet.Payload, 3, Len(packet.Payload))

RECURSIVE DataInOrder(_)
DataInOrder(pkts) ==
    IF pkts = <<>> THEN <<>> ELSE DataOf(Head(pkts)) \o DataInOrder(Tail(pkts))

DataBytes(pkts) == { DataInOrder(pkts)[i] : i \in 1 .. Len(DataInOrder(pkts)) }

Added ==
    SubSeq(Flatten(m'.nalUnits), Len(Flatten(m.nalUnits)) + 1, Len(Flatten(m'.nalUnits)))

RECURSIVE StoredLen(_, _)
StoredLen(frags, S) ==
    IF S = {} THEN 0
    ELSE LET q == CHOOSE x \in S : TRUE
         IN  (Len(frags[q]) - 2) + StoredLen(frags, S \ {q})

AcceptedStep == AddPacketStep /\ last'.err = ""

NeverStarted == span.pkts = <<>> \/ ~HasStart(span.pkts[1])

InTransmissionOrder(pkts) ==
    /\ Len(pkts) >= 2
    /\ HasStart(pkts[1])
    /\ \A k \in 1 .. Len(pkts) :
          /\ pkts[k].SequenceNumber = (pkts[1].SequenceNumber + (k - 1)) % 65536
          /\ HasEnd(pkts[k]) <=> (k = Len(pkts))

\* C12: a start-bit packet arriving while a span is open leaves only itself
\* in the fragment map, and the data appended when the new span's end-bit
\* packet arrives comes only from packets received at or after that start.
C12_AbandonedSpanDrop ==
    [][ /\ (AcceptedStep /\ HasStart(last'.packet) /\ span.open)
            => \A q \in DOMAIN m'.fragments :
                  /\ q = last'.packet.SequenceNumber
                  /\ m'.fragments[q] = last'.packet.Payload
        /\ (AcceptedStep /\ HasEnd(last'.packet) /\ span'.abandoned
             /\ (span.open \/ HasStart(last'.packet)))
            => /\ IsPrefix(m.nalUnits, m'.nalUnits)
               /\ \A i \in 1 .. Len(Added) : Added[i] \in DataBytes(span'.pkts)
               /\ \A q \in DOMAIN m'.fragments :
                     \E k \in 1 .. Len(span'.pkts) :
                        /\ span'.pkts[k].SequenceNumber = q
                        /\ span'.pkts[k].Payload = m'.fragments[q] ]_vars

C12_Witness ==
    /\ last.op = "AddPacket" /\ last.err = "" /\ HasEnd(last.packet)
    /\ span.abandoned /\ ~span.open /\ Len(span.pkts) = 2 /\ calls = 3
    /\ m.nalUnits = << <<21, 19>> >>

\* C14: an FU-A packet without the start bit arriving before any start-bit
\* packet is rejected with an error and adds no fragment and no NAL unit.
C14_NoOpenSpan ==
    [][ (AddPacketStep /\ IsFUA(last'.packet.Payload) /\ ~HasStart(last'.packet)
         /\ NeverStarted)
        => (last'.err # "" /\ m'.fragments = m.fragments
            /\ m'.nalUnits = m.nalUnits) ]_vars

\* C15: an end-bit packet arriving after the span was closed by an earlier
\* end-bit packet, with no new start-bit packet in between, appends nothing
\* to the accumulated list.
C15_EndConsumesSpan ==
    [][ (AddPacketStep /\ HasEnd(last'.packet) /\ ~HasStart(last'.packet)
         /\ ~NeverStarted /\ ~span.open)
        => m'.nalUnits = m.nalUnits ]_vars

\* C16: an end-bit FU-A packet is accepted, appends the data of the span's
\* fragments to the accumulated list and sets the completion flag, and a
\* GetCompleteFrame issued next succeeds.
C16_EndCompletes ==
    [][ /\ (AddPacketStep /\ HasEnd(last'.packet))
            => /\ last'.err = ""
               /\ m'.isComplete
               /\ IsPrefix(m.nalUnits, m'.nalUnits)
               /\ Len(Added) = StoredLen(m'.fragments, DOMAIN m'.fragments)
               /\ \A q \in DOMAIN m'.fragments :
                     \A j \in 3 .. Len(m'.fragments[q]) :
                        \E i \in 1 .. Len(Added) : Added[i] = m'.fragments[q][j]
        /\ (GetStep /\ last'.afterEnd) => last'.err = "" ]_vars

C16_Witness ==
    /\ last.op = "GetCompleteFrame" /\ last.afterEnd /\ last.err = ""
    /\ Len(last.frame) >= 2 /\ ~m.isComplete

\* C20: when the packets of a span arrive in transmission order, start first
\* and end last with consecutive sequence numbers modulo 2^16, the appended
\* data is their data in that order, also across the wrap from 65535 to 0.
C20_CircularOrder ==
    [][ (AcceptedStep /\ HasEnd(last'.packet) /\ InTransmissionOrder(span'.pkts))
        => Added = DataInOrder(span'.pkts) ]_vars

-----------------------------------------------------------------------------
(* The NAL unit scanner: parseNALUnits and findNALUnits applied to every     *)
(* buffer of at most MaxBuf bytes over a small alphabet, on their own and    *)
(* through AddPacket (as a single-NAL payload and as the data of an FU-A     *)
(* packet carrying both the start and the end bit).                          *)

MaxBuf == 9

ScanBytes == {0, 1, 103}

RECURSIVE BuffersOfLen(_)
BuffersOfLen(n) ==
    IF n = 0 THEN { <<>> }
    ELSE { Append(b, x) : b \in BuffersOfLen(n - 1), x \in ScanBytes }

Buffers == UNION { BuffersOfLen(n) : n \in 0 .. MaxBuf }

NotScanned == [by |-> "none", units |-> <<>>]

InitScan ==
    /\ now = 0
    /\ m = NewH264FrameManager(now)
    /\ last = NoCall
    /\ first = NoFirst
    /\ calls = 0
    /\ frame = <<>> /\ packets = <<>> /\ fed = 0
    /\ pc = "scan" /\ mu = 0 /\ snap = <<>> /\ todo = <<>> /\ serial = <<>>
    /\ log = <<>>
    /\ span = NoSpan /\ sent = <<>>
    /\ scanIn \in Buffers
    /\ scanOut = NotScanned

ScanParse ==
    /\ pc = "scan"
    /\ scanOut = NotScanned
    /\ scanOut' = [by |-> "parseNALUnits", units |-> parseNALUnits(scanIn)]
    /\ UNCHANGED <<m, now, callVars, tripVars, pc, lockVars, span, sent, scanIn>>

ScanFind ==
    /\ pc = "scan"
    /\ scanOut = NotScanned
    /\ scanOut' = [by |-> "findNALUnits", units |-> findNALUnits(scanIn)]
    /\ UNCHANGED <<m, now, callVars, tripVars, pc, lockVars, span, sent, scanIn>>

ScanAddPacket ==
    /\ pc = "scan"
    /\ scanOut = NotScanned
    /\ m' = AddPacket(m, Packet(1000, 96, 7, 9000, FALSE, scanIn), now).m
    /\ scanOut' = [by |-> "AddPacket", units |-> m'.nalUnits]
    /\ UNCHANGED <<now, callVars, tripVars, pc, lockVars, span, sent, scanIn>>

ScanAddFragment ==
    /\ pc = "scan"
    /\ scanOut = NotScanned
    /\ m' = AddPacket(m, Packet(1000, 96, 7, 9000, FALSE, <<124, 197>> \o scanIn), now).m
    /\ scanOut' = [by |-> "reassembleFragments", units |-> m'.nalUnits]
    /\ UNCHANGED <<now, callVars, tripVars, pc, lockVars, span, sent, scanIn>>

NextScan == ScanParse \/ ScanFind \/ ScanAddPacket \/ ScanAddFragment

SpecScan == InitScan /\ [][NextScan]_vars

ContainsStartCode(u) ==
    \E i \in 1 .. (Len(u) - 3) : SubSeq(u, i, i + 3) = StartCode

\* C13: for every buffer, no unit returned by parseNALUnits or findNALUnits
\* contains the start code 00 00 00 01, also when the start code occupies
\* the final 4 bytes of the buffer or is the whole buffer.
C13_ScannerSplits ==
    scanOut.by # "none"
        => \A k \in 1 .. Len(scanOut.units) : ~ContainsStartCode(scanOut.units[k])

-----------------------------------------------------------------------------
(* One session fed single-NAL and FU-A packets while time passes. Each call  *)
(* records its packet, and the receive time of the last packet accepted      *)
(* before it (prev) and up to it (accepted); construction counts as time 0.  *)

MaxTimedOps == 3

TimedPayloads ==
    { <<>>,                 \* empty payload
      <<103, 66>>,          \* SPS, type 7
      <<10>>,               \* end of sequence, type 10
      <<124>>,              \* FU indicator alone
      <<124, 133, 17>>,     \* FU-A start
      <<124, 69, 18>> }     \* FU-A end

TimedPackets == { Packet(1000, 96, 7, 9000, FALSE, b) : b \in TimedPayloads }

NoTimedCall ==
    [op |-> "none", err |-> "", frame |-> <<>>, packet |-> <<>>,
     prev |-> 0, accepted |-> 0]

InitTimed ==
    /\ now = 0
    /\ m = NewH264FrameManager(now)
    /\ last = NoTimedCall
    /\ first = NoFirst
    /\ calls = 0
    /\ Idle

TimedAddPacket ==
    /\ calls < MaxTimedOps
    /\ \E packet \in TimedPackets :
          LET res == AddPacket(m, packet, now)
          IN  /\ m' = res.m
              /\ last' = [op |-> "AddPacket", err |-> res.err, frame |-> <<>>,
                          packet |-> packet, prev |-> last.accepted,
                          accepted |-> IF res.err = "" THEN now ELSE last.accepted]
    /\ calls' = calls + 1
    /\ UNCHANGED <<now, first, tripVars, pc, lockVars, auxVars>>

TimedGetCompleteFrame ==
    /\ calls < MaxTimedOps
    /\ LET res == GetCompleteFrame(m)
       IN  /\ m' = res.m
           /\ last' = [op |-> "GetCompleteFrame", err |-> res.err,
                       frame |-> res.frame, packet |-> <<>>,
                       prev |-> last.prev, accepted |-> last.accepted]
    /\ calls' = calls + 1
    /\ UNCHANGED <<now, first, tripVars, pc, lockVars, auxVars>>

NextTimed == TimedAddPacket \/ TimedGetCompleteFrame \/ Tick

SpecTimed == InitTimed /\ [][NextTimed]_vars

EndsSequenceOrStream(nalUnits) ==
    /\ Len(nalUnits) > 0
    /\ Len(nalUnits[Len(nalUnits)]) > 0
    /\ LowFive(nalUnits[Len(nalUnits)][1]) \in {10, 12}

\* C17: after AddPacket accepts a non-FU-A packet, the completion flag is
\* true exactly when the accumulated list is non-empty and either more than
\* the frame timeout (100 ms) has passed since the previous accepted packet
\* was received or the last unit of the list has type 10 or 12.
C17_SingleNALCompletion ==
    [][ (AcceptedStep /\ ~IsFUA(last'.packet.Payload))
        => (m'.isComplete
            <=> (/\ Len(m'.nalUnits) > 0
                 /\ (now - last'.prev > 100 \/ EndsSequenceOrStream(m'.nalUnits)))) ]_vars

\* C18: every AddPacket call that returns success sets the last-received
\* time to the time of the call, and a call that returns an error leaves it
\* as it was.
C18_LastReceiveUpdated ==
    [][ AddPacketStep
        => /\ (last'.err = "" => m'.lastReceive = now)
           /\ (last'.err # "" => m'.lastReceive = m.lastReceive) ]_vars

\* C19: a packet whose first payload byte has type 28 and whose payload is
\* shorter than 2 bytes is rejected with the invalid-FU-A error and leaves
\* the session exactly as it was, also as the session's first packet.
C19_ShortFUANoMutation ==
    [][ (AddPacketStep /\ Len(last'.packet.Payload) = 1
         /\ LowFive(last'.packet.Payload[1]) = 28)
        => (last'.err = "invalid FU-A packet" /\ m' = m) ]_vars

-----------------------------------------------------------------------------
(* Further claims about the session fed FU-A and single-NAL packets (SpecFU) *)

Contributes(packet) ==
    IF IsFUA(packet.Payload)
    THEN HasEnd(packet) /\ Len(packet.Payload) > 2
    ELSE Len(packet.Payload) > 0

InOrder(mm, packet) ==
    [packet EXCEPT !.SequenceNumber = (mm.lastSeq + 1) % 65536]

\* C21: when GetCompleteFrame succeeds right after an accepted packet that
\* appended NAL units (a single-NAL packet or the end-bit packet of an FU-A
\* span), the session's lastTS is that packet's RTP timestamp.
C21_TimestampOfFrame ==
    [][ (GetStep /\ last'.err = "" /\ last.op = "AddPacket" /\ last.err = ""
         /\ Contributes(last.packet))
        => m'.lastTS = last.packet.Timestamp ]_vars

\* C24: AddPacket never fails because of the packet's sequence number, an
\* accepted packet sets lastSeq to its sequence number, and a non-FU-A packet
\* appends the same NAL units as it would with the sequence number lastSeq+1.
C24_GapsNonFatal ==
    [][ AddPacketStep
        => /\ last'.err = AddPacket(m, InOrder(m, last'.packet), now).err
           /\ last'.err = "" => m'.lastSeq = last'.packet.SequenceNumber
           /\ ~IsFUA(last'.packet.Payload)
               => m'.nalUnits = AddPacket(m, InOrder(m, last'.packet), now).m.nalUnits ]_vars

\* C26: whenever the completion flag is set the accumulated NAL list is
\* non-empty, also after an FU-A span closes whose fragments carry no data
\* beyond their 2-byte FU prefix.
C26_CompleteImpliesUnits ==
    m.isComplete => Len(m.nalUnits) > 0

-----------------------------------------------------------------------------
(* Further claims about the session while time passes (SpecTimed) *)

\* C27: once the completion flag is set it stays set through every later
\* AddPacket call, accepted or rejected; only a retrieval clears it.
C27_FlagStable ==
    [][ (m.isComplete /\ AddPacketStep) => m'.isComplete ]_vars

IdleIncomplete ==
    /\ ~m.isComplete
    /\ Len(m.nalUnits) > 0
    /\ now - m.lastReceive > 100

\* C25: without an AddPacket call an unset completion flag stays unset,
\* whatever time passes, and every GetCompleteFrame made meanwhile fails.
C25_IdleNotDetected ==
    [][ (~m.isComplete /\ ~AddPacketStep)
        => (~m'.isComplete /\ (GetStep => last'.err # "" /\ m' = m)) ]_vars

C25_Witness ==
    /\ IdleIncomplete
    /\ last.op = "GetCompleteFrame" /\ last.err # ""

-----------------------------------------------------------------------------
(* Fragmentation arithmetic: Packetize applied to a frame of one NAL unit    *)
(* whose length lies around the multiples of the fragment size.              *)

FragLengths == {1, 2, 1199, 1200, 1201, 1202, 2397, 2398, 2399, 3595}

FragHeaders == {101, 33, 103, 65, 6, 97}

FragFrames == { StartCode \o BigNAL(h, l) : h \in FragHeaders, l \in FragLengths }

InitFrag ==
    /\ now = 0
    /\ m = NewH264FrameManager(now)
    /\ last = NoCall
    /\ first = NoFirst
    /\ calls = 0
    /\ frame \in FragFrames
    /\ packets = <<>> /\ fed = 0
    /\ pc = "frag" /\ mu = 0 /\ snap = <<>> /\ todo = <<>> /\ serial = <<>>
    /\ log = <<>>
    /\ NoAux

FragPacketize ==
    /\ pc = "frag"
    /\ packets' = Packetize(NewRTPPacketizer(1000, 96), frame, 9000)
    /\ pc' = "fragged"
    /\ UNCHANGED <<m, now, callVars, frame, fed, lockVars, auxVars>>

NextFrag == FragPacketize

SpecFrag == InitFrag /\ [][NextFrag]_vars

FragUnit == SubSeq(frame, 5, Len(frame))

\* C22: a unit of length L <= 1200 is emitted as one packet carrying it
\* verbatim; a longer unit is emitted as exactly ceil((L-1)/1198) FU-A
\* packets, at least 2, each payload at most 1200 bytes, whose data slices
\* concatenated in order are the unit without its first byte.
C22_FragmentArithmetic ==
    pc = "fragged"
        => IF Len(FragUnit) <= 1200
           THEN Len(packets) = 1 /\ packets[1].Payload = FragUnit
           ELSE /\ Len(packets) = FragmentCount(Len(FragUnit))
                /\ Len(packets) >= 2
                /\ \A k \in 1 .. Len(packets) : Len(packets[k].Payload) <= 1200
                /\ DataInOrder(packets) = Tail(FragUnit)

-----------------------------------------------------------------------------
(* Further claims about the scanner (SpecScan) *)

\* C23: the scanner never emits a zero-length unit: an empty buffer yields
\* no unit, a buffer shorter than 4 bytes yields itself as the only unit,
\* back-to-back start codes yield nothing between them, and every element of
\* the session's accumulated NAL list is non-empty.
C23_NoEmptyUnit ==
    /\ \A k \in 1 .. Len(m.nalUnits) : Len(m.nalUnits[k]) > 0
    /\ scanOut.by # "none"
        => /\ \A k \in 1 .. Len(scanOut.units) : Len(scanOut.units[k]) > 0
           /\ Len(scanIn) = 0 => scanOut.units = <<>>
           /\ (0 < Len(scanIn) /\ Len(scanIn) < 4) => scanOut.units = <<scanIn>>
           /\ scanIn = StartCode \o StartCode \o <<103>> => scanOut.units = << <<103>> >>

C23_Witness ==
    /\ scanIn = StartCode \o StartCode \o <<103>>
    /\ scanOut.by = "AddPacket"
    /\ m.nalUnits = << <<103>> >>

====
